---- MODULE Spec2Model ----
(***************************************************************************)
(* The tolerant response decoder of src/ollama_client.py                   *)
(* (_parse_cards_json and its fallback stages), as a state machine that    *)
(* runs one decode call stage by stage.                                    *)
(*                                                                         *)
(* Text is a sequence of atoms.  An atom is a fixed piece of text: one     *)
(* punctuation or whitespace character, three backticks, or a word.  No    *)
(* pattern of the code can match a proper part of a word atom, so every    *)
(* operation of the code maps atom sequences to atom sequences; the one    *)
(* exception, the slice raw[:500], is modelled with character counts.      *)
(***************************************************************************)
EXTENDS Integers, Sequences, FiniteSets, TLC

(* ------------------------------ atoms --------------------------------- *)
SP == " "
NL == "\n"
TAB == "\t"
QUOTE == "\""
BS == "\\"
APOS == "'"
\* Three backticks (the lexer of TLA+ has no backtick in strings).
FENCE == "<fence>"
LB == "["
RB == "]"
LC == "{"
RC == "}"
COLON == ":"
COMMA == ","
JSONTAG == "json"
DIGIT == "7"
\* A run of "[" nested deeper than the interpreter's recursion limit allows
\* json.loads to descend; the inputs hold it only as their whole content.
DEEP == "<deep>"

CARD_STYLE_ELI5 == "eli5_technical"
CARD_STYLE_CODE == "code"
Styles == {CARD_STYLE_ELI5, CARD_STYLE_CODE}

\* Number of characters of an atom (len() of the text it stands for).
CharLen(a) ==
  CASE a \in {"question", "Question", "QUESTION", "echnical"} -> 8
    [] a \in {"technical", "Technical", "TECHNICAL"} -> 9
    [] a \in {"eli5", "elI5", "ELI5", "Eli5", "code", "Code", "CODE", "json", "Sure"} -> 4
    [] a \in {"answer", "Answer", "ANSWER"} -> 6
    [] a = FENCE -> 3
    [] OTHER -> 1

\* Characters of s[lo..hi], by halves (the texts reach 500 atoms).
RECURSIVE CharsIn(_, _, _)
CharsIn(s, lo, hi) ==
  IF lo > hi THEN 0
  ELSE IF lo = hi THEN CharLen(s[lo])
  ELSE LET mid == (lo + hi) \div 2
       IN CharsIn(s, lo, mid) + CharsIn(s, mid + 1, hi)

\* len(s)
TextLen(s) == CharsIn(s, 1, Len(s))

\* str.lower() on one atom.
LowerAtom(a) ==
  CASE a \in {"Question", "QUESTION"} -> "question"
    [] a \in {"Technical", "TECHNICAL"} -> "technical"
    [] a \in {"elI5", "ELI5", "Eli5"} -> "eli5"
    [] a \in {"Code", "CODE"} -> "code"
    [] a \in {"Answer", "ANSWER"} -> "answer"
    [] a = "Sure" -> "sure"
    [] a = "Y" -> "y"
    [] OTHER -> a

Lower(s) == [i \in 1..Len(s) |-> LowerAtom(s[i])]

\* Characters str.strip() and the regex class \s remove.
IsSpace(a) == a \in {SP, NL, TAB}

Slice(s, from, to) == IF from > to THEN <<>> ELSE SubSeq(s, from, to)

\* The least member of a set of indices, 0 for the empty set.
Least(S) == IF S = {} THEN 0 ELSE CHOOSE p \in S : \A q \in S : p <= q

\* First index >= i of s that does not hold whitespace (Len(s)+1 if none).
RECURSIVE SkipSpace(_, _)
SkipSpace(s, i) ==
  IF i <= Len(s) /\ IsSpace(s[i]) THEN SkipSpace(s, i + 1) ELSE i

\* Last index <= i of s that does not hold whitespace (0 if none).
RECURSIVE SkipSpaceBack(_, _)
SkipSpaceBack(s, i) ==
  IF i >= 1 /\ IsSpace(s[i]) THEN SkipSpaceBack(s, i - 1) ELSE i

\* str.strip()
Strip(s) == Slice(s, SkipSpace(s, 1), SkipSpaceBack(s, Len(s)))

\* The first (last) index of s[lo..hi] that holds atom a, 0 if none; by halves.
RECURSIVE FirstIn(_, _, _, _)
FirstIn(s, a, lo, hi) ==
  IF lo > hi THEN 0
  ELSE IF lo = hi THEN (IF s[lo] = a THEN lo ELSE 0)
  ELSE LET mid == (lo + hi) \div 2
           left == FirstIn(s, a, lo, mid)
       IN IF left # 0 THEN left ELSE FirstIn(s, a, mid + 1, hi)

RECURSIVE LastIn(_, _, _, _)
LastIn(s, a, lo, hi) ==
  IF lo > hi THEN 0
  ELSE IF lo = hi THEN (IF s[lo] = a THEN lo ELSE 0)
  ELSE LET mid == (lo + hi) \div 2
           right == LastIn(s, a, mid + 1, hi)
       IN IF right # 0 THEN right ELSE LastIn(s, a, lo, mid)

\* str.find(a) / str.rfind(a) for a one-atom needle, 1-based; 0 stands for -1.
FindFrom(s, a, i) == FirstIn(s, a, i, Len(s))

Find(s, a) == FindFrom(s, a, 1)

RFind(s, a) == LastIn(s, a, 1, Len(s))

(* --------------------------- fence stripping -------------------------- *)
\* A fence search that takes the tag json for content.
FenceSearchKeepsTag(text) ==
  LET open == Find(text, FENCE)
      close0 == IF open = 0 THEN 0 ELSE FindFrom(text, FENCE, open + 1)
  IN IF open = 0 \/ close0 = 0 THEN [found |-> FALSE, group |-> <<>>]
     ELSE LET start == SkipSpace(text, open + 1)
              close == FindFrom(text, FENCE, start)
              stop == SkipSpaceBack(text, close - 1)
          IN [found |-> TRUE,
              group |-> IF stop < start THEN <<>> ELSE SubSeq(text, start, stop)]

\* re.search(r"```(?:json)?\s*([\s\S]*?)\s*```", text): the leftmost opening
\* fence that has a later fence; group 1 starts after the optional tag and
\* the whitespace, and is the shortest text followed by whitespace and a
\* fence.  [found |-> FALSE] when the pattern matches nowhere.
FenceSearch(text) ==
  LET open == Find(text, FENCE)
      close0 == IF open = 0 THEN 0 ELSE FindFrom(text, FENCE, open + 1)
  IN IF open = 0 \/ close0 = 0 THEN [found |-> FALSE, group |-> <<>>]
     ELSE LET afterTag == IF text[open + 1] = JSONTAG THEN open + 2 ELSE open + 1
              start == SkipSpace(text, afterTag)
              close == FindFrom(text, FENCE, start)
              stop == SkipSpaceBack(text, close - 1)
          IN [found |-> TRUE,
              group |-> IF stop < start THEN <<>> ELSE SubSeq(text, start, stop)]

\* Lines 161-164: text = raw.strip(); a fenced block replaces it.
StripFence(raw) ==
  LET text == Strip(raw)
      m == FenceSearch(text)
  IN IF m.found THEN Strip(m.group) ELSE text

(* ------------------------------ json.loads ---------------------------- *)
\* A parsed JSON value is [t |-> "str" | "num" | "list" | "dict", v |-> ...]:
\* a str holds its decoded atoms, a num its digits, a list its items, a dict
\* its <<key, value>> pairs in insertion order (a repeated key keeps its
\* place and takes the later value, as a Python dict does).
\* deep: the failure is a RecursionError, not a JSONDecodeError.
Fail == [ok |-> FALSE, val |-> <<>>, next |-> 0, deep |-> FALSE]

TooDeep == [ok |-> FALSE, val |-> <<>>, next |-> 0, deep |-> TRUE]

Ok(val, next) == [ok |-> TRUE, val |-> val, next |-> next, deep |-> FALSE]

\* json.decoder.scanstring (strict): s[i] is the first atom after the opening
\* quote.  A raw control character, an unknown escape or a missing closing
\* quote is an error.  Of the escapes only \", \\ and \t can be written with
\* the atoms: "\" before the word technical reads as a tab and "echnical".
RECURSIVE ScanString(_, _, _)
ScanString(s, i, acc) ==
  IF i > Len(s) THEN Fail
  ELSE IF s[i] = QUOTE THEN Ok([t |-> "str", v |-> acc], i + 1)
  ELSE IF s[i] = BS THEN
    IF i + 1 > Len(s) THEN Fail
    ELSE IF s[i + 1] \in {QUOTE, BS} THEN ScanString(s, i + 2, Append(acc, s[i + 1]))
    ELSE IF s[i + 1] = "technical" THEN ScanString(s, i + 2, acc \o <<TAB, "echnical">>)
    ELSE Fail
  ELSE IF s[i] \in {NL, TAB} THEN Fail
  ELSE ScanString(s, i + 1, Append(acc, s[i]))

\* NUMBER_RE on a run of digit atoms (no sign, fraction or exponent can be
\* written with the atoms).
RECURSIVE ScanNumber(_, _, _)
ScanNumber(s, i, acc) ==
  IF i <= Len(s) /\ s[i] = DIGIT THEN ScanNumber(s, i + 1, Append(acc, DIGIT))
  ELSE Ok([t |-> "num", v |-> acc], i)

RECURSIVE DictPut(_, _, _)
DictPut(pairs, k, v) ==
  IF pairs = <<>> THEN << <<k, v>> >>
  ELSE IF Head(pairs)[1] = k THEN << <<k, v>> >> \o Tail(pairs)
  ELSE <<Head(pairs)>> \o DictPut(Tail(pairs), k, v)

RECURSIVE ParseValue(_, _)
RECURSIVE ArrayItems(_, _, _)
RECURSIVE ObjectItems(_, _, _)

\* JSONArray: s[i] is the first item.
ArrayItems(s, i, acc) ==
  LET item == ParseValue(s, i)
      j == IF item.ok THEN SkipSpace(s, item.next) ELSE 0
  IN IF ~item.ok THEN item
     ELSE IF j > Len(s) THEN Fail
     ELSE IF s[j] = RB THEN Ok([t |-> "list", v |-> Append(acc, item.val)], j + 1)
     ELSE IF s[j] = COMMA THEN ArrayItems(s, SkipSpace(s, j + 1), Append(acc, item.val))
     ELSE Fail

\* JSONObject: s[i] is the opening quote of a key.
ObjectItems(s, i, acc) ==
  IF i > Len(s) \/ s[i] # QUOTE THEN Fail
  ELSE
    LET key == ScanString(s, i + 1, <<>>)
        c == IF key.ok THEN SkipSpace(s, key.next) ELSE 0
    IN IF ~key.ok \/ c > Len(s) \/ s[c] # COLON THEN Fail
       ELSE
         LET item == ParseValue(s, SkipSpace(s, c + 1))
             j == IF item.ok THEN SkipSpace(s, item.next) ELSE 0
             pairs == DictPut(acc, key.val.v, item.val)
         IN IF ~item.ok THEN item
            ELSE IF j > Len(s) THEN Fail
            ELSE IF s[j] = RC THEN Ok([t |-> "dict", v |-> pairs], j + 1)
            ELSE IF s[j] = COMMA THEN ObjectItems(s, SkipSpace(s, j + 1), pairs)
            ELSE Fail

\* scan_once
ParseValue(s, i) ==
  IF i > Len(s) THEN Fail
  ELSE IF s[i] = QUOTE THEN ScanString(s, i + 1, <<>>)
  ELSE IF s[i] = DIGIT THEN ScanNumber(s, i, <<>>)
  ELSE IF s[i] = LB THEN
    LET j == SkipSpace(s, i + 1)
    IN IF j <= Len(s) /\ s[j] = RB THEN Ok([t |-> "list", v |-> <<>>], j + 1)
       ELSE ArrayItems(s, j, <<>>)
  ELSE IF s[i] = LC THEN
    LET j == SkipSpace(s, i + 1)
    IN IF j <= Len(s) /\ s[j] = RC THEN Ok([t |-> "dict", v |-> <<>>], j + 1)
       ELSE ObjectItems(s, j, <<>>)
  ELSE IF s[i] = DEEP THEN TooDeep
  ELSE Fail

\* A json.loads that reads a blank text as the empty list.
JsonLoadsBlankAsList(text) ==
  LET r == ParseValue(text, SkipSpace(text, 1))
  IN IF SkipSpace(text, 1) > Len(text)
     THEN [ok |-> TRUE, val |-> [t |-> "list", v |-> <<>>], deep |-> FALSE]
     ELSE IF r.ok /\ SkipSpace(text, r.next) > Len(text)
     THEN [ok |-> TRUE, val |-> r.val, deep |-> FALSE]
     ELSE [ok |-> FALSE, val |-> <<>>, deep |-> r.deep]

\* json.loads(text): one value, whitespace around it, nothing else.
\* [ok |-> FALSE] stands for JSONDecodeError, or for RecursionError when deep.
JsonLoads(text) ==
  LET r == ParseValue(text, SkipSpace(text, 1))
  IN IF r.ok /\ SkipSpace(text, r.next) > Len(text)
     THEN [ok |-> TRUE, val |-> r.val, deep |-> FALSE]
     ELSE [ok |-> FALSE, val |-> <<>>, deep |-> r.deep]

(* ------------------------ str() of a parsed value --------------------- *)
StrVal(v) == [t |-> "str", v |-> v]

\* repr() of a str: single quotes (no atom holds an apostrophe), a backslash
\* doubled, a tab written \t.
RECURSIVE ReprBody(_)
ReprBody(v) ==
  IF v = <<>> THEN <<>>
  ELSE IF Head(v) = BS THEN <<BS, BS>> \o ReprBody(Tail(v))
  ELSE IF Head(v) = TAB /\ Len(v) >= 2 /\ v[2] = "echnical"
    THEN <<BS, "technical">> \o ReprBody(Tail(Tail(v)))
  ELSE IF Head(v) = TAB THEN <<BS, "t">> \o ReprBody(Tail(v))
  ELSE <<Head(v)>> \o ReprBody(Tail(v))

RECURSIVE Repr(_)
RECURSIVE ReprItems(_, _)
ReprItems(items, isDict) ==
  IF items = <<>> THEN <<>>
  ELSE (IF isDict
          THEN <<APOS>> \o ReprBody(Head(items)[1]) \o <<APOS, COLON, SP>>
               \o Repr(Head(items)[2])
          ELSE Repr(Head(items)))
       \o (IF Len(items) > 1 THEN <<COMMA, SP>> ELSE <<>>)
       \o ReprItems(Tail(items), isDict)

Repr(val) ==
  CASE val.t = "str" -> <<APOS>> \o ReprBody(val.v) \o <<APOS>>
    [] val.t = "num" -> val.v
    [] val.t = "list" -> <<LB>> \o ReprItems(val.v, FALSE) \o <<RB>>
    [] val.t = "dict" -> <<LC>> \o ReprItems(val.v, TRUE) \o <<RC>>

\* str(x)
PyStr(val) == IF val.t = "str" THEN val.v ELSE Repr(val)

\* dict.get(key, default)
RECURSIVE Get(_, _, _)
Get(pairs, key, default) ==
  IF pairs = <<>> THEN default
  ELSE IF Head(pairs)[1] = key THEN Head(pairs)[2]
  ELSE Get(Tail(pairs), key, default)

(* ------------------------------ normalize ----------------------------- *)
CardKeys == {"question", "code", "eli5", "technical", "answer"}

\* A normalization that leaves the values untrimmed.
NormalizeItemUntrimmed(d) ==
  LET e == StrVal(<<>>)
  IN [question |-> PyStr(Get(d, <<"question">>, Get(d, <<"Question">>, e))),
      code |-> PyStr(Get(d, <<"code">>, Get(d, <<"Code">>, e))),
      eli5 |-> PyStr(Get(d, <<"eli5">>, Get(d, <<"elI5">>, Get(d, <<"ELI5">>, e)))),
      technical |-> PyStr(Get(d, <<"technical">>, Get(d, <<"Technical">>, e))),
      answer |-> PyStr(Get(d, <<"answer">>, Get(d, <<"Answer">>, e)))]

\* Lines 200-206: one card of the unified shape from one parsed dict.
NormalizeItem(d) ==
  LET e == StrVal(<<>>)
  IN [question |-> Strip(PyStr(Get(d, <<"question">>, Get(d, <<"Question">>, e)))),
      code |-> Strip(PyStr(Get(d, <<"code">>, Get(d, <<"Code">>, e)))),
      eli5 |-> Strip(PyStr(Get(d, <<"eli5">>,
                               Get(d, <<"elI5">>, Get(d, <<"ELI5">>, e))))),
      technical |-> Strip(PyStr(Get(d, <<"technical">>, Get(d, <<"Technical">>, e)))),
      answer |-> Strip(PyStr(Get(d, <<"answer">>, Get(d, <<"Answer">>, e))))]

RECURSIVE NormalizeItems(_)
NormalizeItems(items) ==
  IF items = <<>> THEN <<>>
  ELSE (IF Head(items).t = "dict" THEN <<NormalizeItem(Head(items).v)>> ELSE <<>>)
       \o NormalizeItems(Tail(items))

\* Lines 193-207: a value that is no list is wrapped; items that are no dict
\* are dropped.
Normalize(parsed) ==
  NormalizeItems(IF parsed.t = "list" THEN parsed.v ELSE <<parsed>>)

(* ------------------------------- snippet ------------------------------ *)
SNIPPET_CHARS == 500

\* How many whole atoms of s[lo..hi], from lo on, lie within n characters.
RECURSIVE AtomsWithin(_, _, _, _)
AtomsWithin(s, lo, hi, n) ==
  IF lo > hi THEN 0
  ELSE IF CharsIn(s, lo, hi) <= n THEN hi - lo + 1
  ELSE IF lo = hi THEN 0
  ELSE LET mid == (lo + hi) \div 2
           left == CharsIn(s, lo, mid)
       IN IF left <= n THEN (mid - lo + 1) + AtomsWithin(s, mid + 1, hi, n - left)
          ELSE AtomsWithin(s, lo, mid, n)

\* The longest prefix of whole atoms of s within n characters.
WholeAtoms(s, n) == Slice(s, 1, AtomsWithin(s, 1, Len(s), n))

ReplaceNewlines(s) == [i \in 1..Len(s) |-> IF s[i] = NL THEN SP ELSE s[i]]

\* A snippet that keeps its newlines.
SnippetWithNewlines(raw) ==
  IF TextLen(raw) > SNIPPET_CHARS
  THEN LET body == WholeAtoms(raw, SNIPPET_CHARS)
           rest == SNIPPET_CHARS - TextLen(body)
       IN [body |-> body,
           part |-> IF rest > 0 THEN <<raw[Len(body) + 1]>> ELSE <<>>,
           partChars |-> rest,
           ellipsis |-> TRUE]
  ELSE [body |-> raw, part |-> <<>>, partChars |-> 0, ellipsis |-> FALSE]

\* Line 188: (raw[:500] + "..." if len(raw) > 500 else raw).replace("\n", " ").
\* body: the whole atoms of the slice; part: the atom the slice cuts, if any,
\* and partChars: how many of its characters the slice keeps.
Snippet(raw) ==
  IF TextLen(raw) > SNIPPET_CHARS
  THEN LET body == WholeAtoms(raw, SNIPPET_CHARS)
           rest == SNIPPET_CHARS - TextLen(body)
       IN [body |-> ReplaceNewlines(body),
           part |-> IF rest > 0 THEN <<raw[Len(body) + 1]>> ELSE <<>>,
           partChars |-> rest,
           ellipsis |-> TRUE]
  ELSE [body |-> ReplaceNewlines(raw), part |-> <<>>, partChars |-> 0,
        ellipsis |-> FALSE]

\* len() of the snippet
SnippetLen(sn) == TextLen(sn.body) + sn.partChars + (IF sn.ellipsis THEN 3 ELSE 0)

(* ------------------------- object-brace repair ------------------------ *)
None == [some |-> FALSE, val |-> <<>>]

Some(val) == [some |-> TRUE, val |-> val]

\* The words [Qq]uestion matches.
IsQq(a) == a \in {"question", "Question"}

\* "[Qq]uestion" at s[i..i+2]
QuotedQqAt(s, i) ==
  i + 2 <= Len(s) /\ s[i] = QUOTE /\ IsQq(s[i + 1]) /\ s[i + 2] = QUOTE

\* The index of the colon that ends a match of "[Qq]uestion"\s*: at s[i], else 0.
QqKeyEnd(s, i) ==
  IF QuotedQqAt(s, i)
  THEN LET c == SkipSpace(s, i + 3)
       IN IF c <= Len(s) /\ s[c] = COLON THEN c ELSE 0
  ELSE 0

\* re.search(r'"[Qq]uestion"\s*:', s)
HasQqKey(s) == \E i \in 1..Len(s) : QqKeyEnd(s, i) # 0

\* re.sub(r'\[\s*"[Qq]uestion"', '[ {"question"', s, count=1): the leftmost
\* match only.
OpenFirst(s) ==
  LET p == Least({i \in 1..Len(s) : s[i] = LB /\ QuotedQqAt(s, SkipSpace(s, i + 1))})
  IN IF p = 0 THEN s
     ELSE Slice(s, 1, p - 1) \o <<LB, SP, LC, QUOTE, "question", QUOTE>>
          \o Slice(s, SkipSpace(s, p + 1) + 3, Len(s))

\* The index that ends a match of (?:,\s*|[\n\r]+\s*)"[Qq]uestion"\s*: at s[i],
\* else 0.
CardBreakEnd(s, i) ==
  IF s[i] \in {COMMA, NL} THEN QqKeyEnd(s, SkipSpace(s, i + 1)) ELSE 0

\* re.sub(r'(?:,\s*|[\n\r]+\s*)"[Qq]uestion"\s*:', r'}, { "question":', s) from
\* index i on: every match, left to right, none overlapping.
RECURSIVE SplitCards(_, _)
SplitCards(s, i) ==
  LET p == Least({j \in i..Len(s) : CardBreakEnd(s, j) # 0})
  IN IF p = 0 THEN Slice(s, i, Len(s))
     ELSE Slice(s, i, p - 1)
          \o <<RC, COMMA, SP, LC, SP, QUOTE, "question", QUOTE, COLON>>
          \o SplitCards(s, CardBreakEnd(s, p) + 1)

\* re.sub(r'(\s*)\](\s*)$', r'\1 } \2]', s) on a text that ends with "]".
CloseLast(s) ==
  IF s # <<>> /\ s[Len(s)] = RB
  THEN Slice(s, 1, Len(s) - 1) \o <<SP, RC, SP, RB>>
  ELSE s

\* Lines 210-225
_repair_array_of_objects(s0) ==
  LET s1 == Strip(s0)
      s == IF s1 # <<>> /\ s1[Len(s1)] = RB THEN s1 ELSE Append(s1, RB)
  IN IF s1 = <<>> \/ s1[1] # LB THEN None
     ELSE IF ~HasQqKey(s) THEN None
     ELSE Some(CloseLast(SplitCards(OpenFirst(s), 1)))

(* --------------------- flat key-value array merge --------------------- *)
\* re.sub(r"\]\s*,?\s*\[", ", ", text): from index i on, every match left to
\* right, none overlapping.  A match starts at a "]", so the text up to the
\* next "]" is copied as it is.
RECURSIVE MergeArrays(_, _)
MergeArrays(s, i) ==
  LET r == FindFrom(s, RB, i)
      a == SkipSpace(s, r + 1)
      b == IF a <= Len(s) /\ s[a] = COMMA THEN SkipSpace(s, a + 1) ELSE a
  IN IF r = 0 THEN Slice(s, i, Len(s))
     ELSE IF b <= Len(s) /\ s[b] = LB
       THEN Slice(s, i, r - 1) \o <<COMMA, SP>> \o MergeArrays(s, b + 1)
     ELSE Slice(s, i, r) \o MergeArrays(s, r + 1)

FlatKeys == {<<"question">>, <<"eli5">>, <<"technical">>}

NoCard == [set |-> FALSE, question |-> <<>>, eli5 |-> <<>>, technical |-> <<>>]

NewCard == [set |-> TRUE, question |-> <<>>, eli5 |-> <<>>, technical |-> <<>>]

\* A test that keeps every started card, empty or not.
HasContentAnyCard(card) == card.set

\* current and (current.get("question") or current.get("technical"))
HasContent(card) == card.set /\ (card.question # <<>> \/ card.technical # <<>>)

SetField(card, key, v) ==
  CASE key = <<"question">> -> [card EXCEPT !.question = v]
    [] key = <<"eli5">> -> [card EXCEPT !.eli5 = v]
    [] key = <<"technical">> -> [card EXCEPT !.technical = v]

\* The dict a fallback stage builds: {"question": .., "eli5": .., "technical": ..}
CardDict(card) ==
  [t |-> "dict",
   v |-> << <<(<<"question">>), StrVal(card.question)>>,
            <<(<<"eli5">>), StrVal(card.eli5)>>,
            <<(<<"technical">>), StrVal(card.technical)>> >>]

\* Lines 293-320: the pairwise walk of the flat list.
RECURSIVE FlatWalk(_, _, _, _)
FlatWalk(flat, i, cards, current) ==
  LET done == IF HasContent(current) THEN Append(cards, CardDict(current)) ELSE cards
  IN IF i > Len(flat) THEN done
     ELSE IF flat[i].t # "str" \/ Lower(flat[i].v) \notin FlatKeys
       THEN FlatWalk(flat, i + 1, cards, current)
     ELSE IF i + 1 > Len(flat) THEN done
     ELSE
       LET key == Lower(flat[i].v)
           cards1 == IF key = <<"question">> /\ HasContent(current)
                     THEN Append(cards, CardDict(current)) ELSE cards
           cur1 == IF key = <<"question">> \/ ~current.set THEN NewCard ELSE current
           cur2 == IF flat[i + 1].t = "str"
                   THEN SetField(cur1, key, flat[i + 1].v) ELSE cur1
       IN FlatWalk(flat, i + 2, cards1, cur2)

\* Lines 279-320
_parse_flat_key_value_array(text) ==
  LET merged == MergeArrays(text, 1)
      start == Find(merged, LB)
      end == RFind(merged, RB)
  IN IF start = 0 \/ end = 0 \/ end <= start THEN None
     ELSE LET flat == JsonLoads(SubSeq(merged, start, end))
          IN IF ~flat.ok \/ flat.val.t # "list" \/ flat.val.v = <<>> THEN None
             ELSE LET cards == FlatWalk(flat.val.v, 1, <<>>, NoCard)
                  IN IF cards = <<>> THEN None
                     ELSE Some([t |-> "list", v |-> cards])

(* ------------------------- key/value text scan ------------------------ *)
\* key_pattern (re.IGNORECASE) at s[i]: a quoted key word in any letter case,
\* \s*:\s* and the opening quote of the value.  The index of that quote, else 0.
KeyPatternEnd(s, i) ==
  IF i + 2 <= Len(s) /\ s[i] = QUOTE /\ <<LowerAtom(s[i + 1])>> \in FlatKeys
     /\ s[i + 2] = QUOTE
  THEN LET c == SkipSpace(s, i + 3)
           q == IF c <= Len(s) /\ s[c] = COLON THEN SkipSpace(s, c + 1) ELSE 0
       IN IF q # 0 /\ q <= Len(s) /\ s[q] = QUOTE THEN q ELSE 0
  ELSE 0

\* key_pattern.search(s, pos): the start of the leftmost match at or after
\* pos, 0 if none.
KeySearch(s, pos) == Least({i \in pos..Len(s) : KeyPatternEnd(s, i) # 0})

\* str.replace(a b, r) for a two-atom needle
RECURSIVE ReplacePair(_, _, _, _)
ReplacePair(v, a, b, r) ==
  IF Len(v) < 2 THEN v
  ELSE IF v[1] = a /\ v[2] = b THEN <<r>> \o ReplacePair(Tail(Tail(v)), a, b, r)
  ELSE <<v[1]>> \o ReplacePair(Tail(v), a, b, r)

\* Lines 235-243: the index of the closing quote, walking from i; a backslash
\* skips the character after it.  0 when the text ends first.
RECURSIVE ClosingQuote(_, _)
ClosingQuote(s, i) ==
  IF i > Len(s) THEN 0
  ELSE IF s[i] = BS /\ i + 1 <= Len(s) THEN ClosingQuote(s, i + 2)
  ELSE IF s[i] = QUOTE THEN i
  ELSE ClosingQuote(s, i + 1)

\* A value reader that reports the closing quote itself as the place to go on
\* from.
ExtractStopsAtQuote(s, open) ==
  IF open > Len(s) \/ s[open] # QUOTE THEN [some |-> FALSE, val |-> <<>>, after |-> open]
  ELSE LET close == ClosingQuote(s, open + 1)
       IN IF close = 0 THEN [some |-> FALSE, val |-> <<>>, after |-> open]
          ELSE [some |-> TRUE,
                val |-> ReplacePair(ReplacePair(Slice(s, open + 1, close - 1),
                                                BS, QUOTE, QUOTE), BS, BS, BS),
                after |-> close]

\* Lines 228-243: [some, val, after]; s[open] is the opening quote.
_extract_quoted_value(s, open) ==
  IF open > Len(s) \/ s[open] # QUOTE THEN [some |-> FALSE, val |-> <<>>, after |-> open]
  ELSE LET close == ClosingQuote(s, open + 1)
       IN IF close = 0 THEN [some |-> FALSE, val |-> <<>>, after |-> open]
          ELSE [some |-> TRUE,
                val |-> ReplacePair(ReplacePair(Slice(s, open + 1, close - 1),
                                                BS, QUOTE, QUOTE), BS, BS, BS),
                after |-> close + 1]

\* A write that goes to the first record instead of the last.
SetFirst(cards, key, v) ==
  [cards EXCEPT ![1] = SetField(cards[1], key, v)]

SetLast(cards, key, v) ==
  [cards EXCEPT ![Len(cards)] = SetField(cards[Len(cards)], key, v)]

\* Lines 256-275: the scan loop; cards are NewCard-shaped records.
RECURSIVE ScanLoop(_, _, _)
ScanLoop(s, pos, cards) ==
  LET m == KeySearch(s, pos)
  IN IF pos > Len(s) \/ m = 0 THEN cards
     ELSE LET key == <<LowerAtom(s[m + 1])>>
              open == KeyPatternEnd(s, m)
              x == _extract_quoted_value(s, open)
          IN IF ~x.some THEN ScanLoop(s, open + 1, cards)
             ELSE IF key = <<"question">>
               THEN ScanLoop(s, x.after, Append(cards, SetField(NewCard, key, x.val)))
             ELSE IF cards # <<>>
               THEN ScanLoop(s, x.after, SetLast(cards, key, x.val))
             ELSE ScanLoop(s, x.after, cards)

\* Lines 246-276
_parse_array_like_key_value_text(text) ==
  LET start == Find(text, LB)
      end == RFind(text, RB)
  IN IF start = 0 \/ end <= start THEN None
     ELSE LET cards == ScanLoop(SubSeq(text, start, end), 1, <<>>)
          IN IF cards # <<>> /\ \E i \in 1..Len(cards) : HasContent(cards[i])
             THEN Some([t |-> "list", v |-> [i \in 1..Len(cards) |-> CardDict(cards[i])]])
             ELSE None

(* ------------------------------- inputs ------------------------------- *)
MaxCards == 2
MaxJunk == 3

\* A string value of an input: src is its body as written between the quotes
\* of the text, val the string it denotes; an absent value has no key at all.
Val(src, val) == [src |-> src, val |-> val, absent |-> FALSE]

VPlain == Val(<<"x">>, <<"x">>)
VOther == Val(<<"y">>, <<"y">>)
VPadded == Val(<<SP, "x", SP, "y", SP>>, <<SP, "x", SP, "y", SP>>)
VEmpty == Val(<<>>, <<>>)
VBlank == Val(<<SP>>, <<SP>>)
VEscaped == Val(<<BS, QUOTE, "x", BS, BS>>, <<QUOTE, "x", BS>>)
VFenced == Val(<<FENCE, "x", FENCE>>, <<FENCE, "x", FENCE>>)
VIndexed == Val(<<"x", LB, "y", RB, LB, "x", RB>>, <<"x", LB, "y", RB, LB, "x", RB>>)
VAbsent == [src |-> <<>>, val |-> <<>>, absent |-> TRUE]

\* The record with no field: {}
EmptyRecord == [q |-> VAbsent, a |-> VAbsent, b |-> VAbsent]

\* A card of an input: q is its question, a its eli5 or code, b its technical
\* or answer.
FullCards ==
  { [q |-> VPlain, a |-> VOther, b |-> VPlain],
    [q |-> VPadded, a |-> VEscaped, b |-> VEmpty],
    [q |-> VEmpty, a |-> VPlain, b |-> VEmpty],
    [q |-> VBlank, a |-> VPlain, b |-> VEmpty],
    [q |-> VFenced, a |-> VPlain, b |-> VOther],
    [q |-> VOther, a |-> VPlain, b |-> VIndexed] }

InputCards == FullCards \cup {EmptyRecord}

SeqsUpTo(S, n) == UNION {[1..k -> S] : k \in 0..n}

Formats == {"compact", "spaced", "lines", "cap", "upper"}
Wraps == {"none", "fence", "fencejson", "fencetight", "prose", "cite", "quoted"}
JunkAtoms == {LB, RB, LC, RC, DIGIT, JSONTAG}
MaxBlank == 2

\* The key names of a card shape, as a format spells them.
KeyNames(shape, fmt) ==
  IF shape = CARD_STYLE_ELI5
  THEN CASE fmt = "cap" -> <<"Question", "ELI5", "Technical">>
         [] fmt = "upper" -> <<"QUESTION", "Eli5", "TECHNICAL">>
         [] OTHER -> <<"question", "eli5", "technical">>
  ELSE CASE fmt = "cap" -> <<"Question", "Code", "Answer">>
         [] fmt = "upper" -> <<"QUESTION", "CODE", "ANSWER">>
         [] OTHER -> <<"question", "code", "answer">>

\* Whitespace a format puts around punctuation.
Gap(fmt) == CASE fmt = "spaced" -> <<SP>> [] fmt = "lines" -> <<NL, SP>> [] OTHER -> <<>>

Quoted(v) == <<QUOTE>> \o v \o <<QUOTE>>

RECURSIVE Join(_, _)
Join(parts, sep) ==
  IF parts = <<>> THEN <<>>
  ELSE IF Len(parts) = 1 THEN parts[1]
  ELSE parts[1] \o sep \o Join(Tail(parts), sep)

\* The indices of the fields a card has.
Present(c) == SelectSeq(<<1, 2, 3>>, LAMBDA i : ~(<<c.q, c.a, c.b>>)[i].absent)

CardValues(c) == <<c.q, c.a, c.b>>

\* "key": "value" pairs of one card
Pairs(c, shape, fmt) ==
  Join([k \in 1..Len(Present(c)) |->
          LET i == Present(c)[k]
          IN Quoted(<<KeyNames(shape, fmt)[i]>>) \o Gap(fmt) \o <<COLON>>
             \o Gap(fmt) \o Quoted(CardValues(c)[i].src)],
       <<COMMA>> \o Gap(fmt))

RenderObject(c, shape, fmt) ==
  <<LC>> \o Gap(fmt) \o Pairs(c, shape, fmt) \o Gap(fmt) \o <<RC>>

\* "key", "value", ... of one card, as one flat array
RenderFlat(c, shape, fmt) ==
  <<LB>> \o Join([i \in 1..6 |-> IF i % 2 = 1
                                  THEN Quoted(<<KeyNames(shape, fmt)[(i + 1) \div 2]>>)
                                  ELSE Quoted(CardValues(c)[i \div 2].src)],
                 <<COMMA>> \o Gap(fmt)) \o <<RB>>

LongLengths == (SNIPPET_CHARS - 2)..(SNIPPET_CHARS + 2)

\* A text of n atoms, every seventh a newline.
LongText(n, atom) == [i \in 1..n |-> IF i % 7 = 0 THEN NL ELSE atom]

Bodies ==
  [kind : {"array"}, shape : Styles, fmt : Formats,
   cards : SeqsUpTo(InputCards, MaxCards), junk : {<<>>}]
  \cup [kind : {"bare", "flat"}, shape : {CARD_STYLE_ELI5}, fmt : Formats,
        cards : SeqsUpTo(FullCards, MaxCards), junk : {<<>>}]
  \cup [kind : {"object"}, shape : Styles, fmt : Formats,
        cards : [1..1 -> InputCards], junk : {<<>>}]
  \cup [kind : {"junk"}, shape : {CARD_STYLE_ELI5}, fmt : {"compact"},
        cards : {<<>>},
        junk : SeqsUpTo(JunkAtoms, MaxJunk) \cup SeqsUpTo({SP, NL}, MaxBlank)]
  \cup [kind : {"long"}, shape : {CARD_STYLE_ELI5}, fmt : {"compact"}, cards : {<<>>},
        junk : {LongText(n, "x") : n \in LongLengths}
               \cup {LongText(n, "question") :
                       n \in {SNIPPET_CHARS \div 7, SNIPPET_CHARS \div 7 + 1}}]
  \cup [kind : {"deep"}, shape : {CARD_STYLE_ELI5}, fmt : {"compact"}, cards : {<<>>},
        junk : {<<DEEP>>}]

RenderBody(b) ==
  CASE b.kind = "array" ->
         <<LB>> \o Gap(b.fmt)
         \o Join([i \in 1..Len(b.cards) |-> RenderObject(b.cards[i], b.shape, b.fmt)],
                 <<COMMA>> \o Gap(b.fmt))
         \o Gap(b.fmt) \o <<RB>>
    [] b.kind = "object" -> RenderObject(b.cards[1], b.shape, b.fmt)
    [] b.kind = "bare" ->
         <<LB>> \o Gap(b.fmt)
         \o Join([i \in 1..Len(b.cards) |-> Pairs(b.cards[i], b.shape, b.fmt)],
                 <<COMMA>> \o Gap(b.fmt))
         \o Gap(b.fmt) \o <<RB>>
    [] b.kind = "flat" ->
         Join([i \in 1..Len(b.cards) |-> RenderFlat(b.cards[i], b.shape, b.fmt)],
              IF b.fmt = "lines" THEN <<NL>> ELSE <<COMMA>> \o Gap(b.fmt))
    [] OTHER -> b.junk

Lead(wrap) ==
  CASE wrap = "fence" -> <<FENCE, NL>>
    [] wrap = "fencejson" -> <<FENCE, JSONTAG, NL>>
    [] wrap = "fencetight" -> <<FENCE>>
    [] wrap = "prose" -> <<"Sure", SP>>
    [] wrap = "cite" -> <<"Sure", SP, LB, DIGIT, RB, COLON, SP>>
    [] wrap = "quoted" -> <<QUOTE>>
    [] OTHER -> <<>>

Trail(wrap) ==
  CASE wrap \in {"fence", "fencejson"} -> <<NL, FENCE>>
    [] wrap = "fencetight" -> <<FENCE>>
    [] wrap = "prose" -> <<SP, "Sure", DIGIT, NL>>
    [] wrap = "quoted" -> <<QUOTE>>
    [] OTHER -> <<>>

IsFenceWrap(wrap) == wrap \in {"fence", "fencejson", "fencetight"}
IsProseWrap(wrap) == wrap \in {"prose", "cite", "quoted"}

Render(b, wrap) == Lead(wrap) \o RenderBody(b) \o Trail(wrap)

\* The inputs of the model: every body as it is; the compact and the
\* multi-line ones in each fence; the compact arrays in each prose.
Sources ==
  {[body |-> b, wrap |-> "none"] : b \in Bodies}
  \cup {[body |-> b, wrap |-> w] :
          b \in {x \in Bodies : x.fmt \in {"compact", "lines"}},
          w \in {x \in Wraps : IsFenceWrap(x)}}
  \cup {[body |-> b, wrap |-> w] :
          b \in {x \in Bodies : x.kind = "array" /\ x.fmt = "compact"},
          w \in {x \in Wraps : IsProseWrap(x)}}

(* ---------------------------- state machine --------------------------- *)
VARIABLES src, raw, card_style, pc, text, parsed, stage, cards, snippet,
          existing, only_new, cards_with_dup, notes,
          walk_flat, walk_i, current, scan_s, pos

\* The variables of the steps after the decoder and of the loops inside it.
flow == <<existing, only_new, cards_with_dup, notes>>
walk == <<walk_flat, walk_i, current>>
scan == <<scan_s, pos>>

vars == <<src, raw, card_style, pc, text, parsed, stage, cards, snippet,
          flow, walk, scan>>

FlowIdle == existing = {} /\ only_new = TRUE /\ cards_with_dup = <<>> /\ notes = <<>>
WalkIdle == walk_flat = <<>> /\ walk_i = 0 /\ current = NoCard
ScanIdle == scan_s = <<>> /\ pos = 0

NoSnippet == [body |-> <<>>, part |-> <<>>, partChars |-> 0, ellipsis |-> FALSE]

Init ==
  /\ src \in Sources
  /\ raw = Render(src.body, src.wrap)
  /\ card_style \in Styles
  /\ pc = "start"
  /\ text = <<>>
  /\ parsed = None
  /\ stage = "none"
  /\ cards = <<>>
  /\ snippet = NoSnippet
  /\ FlowIdle /\ WalkIdle /\ ScanIdle

\* A span that ends at the first "]" instead of the last.
BracketSpanToFirstClose(t) ==
  LET start == Find(t, LB)
      end == Find(t, RB)
  IN IF start # 0 /\ end # 0 /\ end > start THEN SubSeq(t, start, end) ELSE <<>>

\* text[start : end + 1] of lines 170-176; <<>> when the guard of line 171 fails.
BracketSpan(t) ==
  LET start == Find(t, LB)
      end == RFind(t, RB)
  IN IF start # 0 /\ end # 0 /\ end > start THEN SubSeq(t, start, end) ELSE <<>>

\* Lines 161-164
FenceStep ==
  /\ pc = "start"
  /\ text' = StripFence(raw)
  /\ pc' = "strict"
  /\ UNCHANGED <<src, raw, card_style, parsed, stage, cards, snippet>>
  /\ UNCHANGED <<flow, walk, scan>>

\* Lines 167-169: json.loads(text); line 169 catches JSONDecodeError only, so
\* a RecursionError leaves the function.
StrictParse ==
  /\ pc = "strict"
  /\ LET r == JsonLoads(text)
     IN IF r.ok
        THEN parsed' = Some(r.val) /\ stage' = "strict" /\ pc' = "normalize"
        ELSE parsed' = None /\ stage' = stage
             /\ pc' = IF r.deep THEN "crash" ELSE "bracket"
  /\ UNCHANGED <<src, raw, card_style, text, cards, snippet>>
  /\ UNCHANGED <<flow, walk, scan>>

\* A bracket scan that hands a failed span to the repair under either style.
BracketScanRepairsAnyStyle ==
  /\ pc = "bracket"
  /\ LET span == BracketSpan(text)
         r == JsonLoads(span)
     IN IF span # <<>> /\ r.ok
        THEN parsed' = Some(r.val) /\ stage' = "bracket" /\ pc' = "normalize"
        ELSE /\ parsed' = None
             /\ stage' = stage
             /\ pc' = IF span # <<>> THEN "repair" ELSE "fallback"
  /\ UNCHANGED <<src, raw, card_style, text, cards, snippet>>
  /\ UNCHANGED <<flow, walk, scan>>

\* Lines 170-174: json.loads of the first "[" to the last "]"
BracketScan ==
  /\ pc = "bracket"
  /\ LET span == BracketSpan(text)
         r == JsonLoads(span)
     IN IF span # <<>> /\ r.ok
        THEN parsed' = Some(r.val) /\ stage' = "bracket" /\ pc' = "normalize"
        ELSE /\ parsed' = None
             /\ stage' = stage
             /\ pc' = IF span # <<>> /\ r.deep THEN "crash"
                      ELSE IF span # <<>> /\ card_style = CARD_STYLE_ELI5
                      THEN "repair" ELSE "fallback"
  /\ UNCHANGED <<src, raw, card_style, text, cards, snippet>>
  /\ UNCHANGED <<flow, walk, scan>>

\* Lines 175-181: the repaired span, parsed again
BraceRepair ==
  /\ pc = "repair"
  /\ LET repaired == _repair_array_of_objects(BracketSpan(text))
         r == JsonLoads(repaired.val)
     IN IF repaired.some /\ r.ok
        THEN parsed' = Some(r.val) /\ stage' = "repair" /\ pc' = "normalize"
        ELSE parsed' = None /\ stage' = stage
             /\ pc' = IF repaired.some /\ r.deep THEN "crash" ELSE "fallback"
  /\ UNCHANGED <<src, raw, card_style, text, cards, snippet>>
  /\ UNCHANGED <<flow, walk, scan>>

\* Lines 183-184
FlatMerge ==
  /\ pc = "fallback"
  /\ card_style = CARD_STYLE_ELI5
  /\ LET r == _parse_flat_key_value_array(text)
     IN IF r.some
        THEN parsed' = r /\ stage' = "flat" /\ pc' = "normalize"
        ELSE parsed' = None /\ stage' = stage /\ pc' = "scan"
  /\ UNCHANGED <<src, raw, card_style, text, cards, snippet>>
  /\ UNCHANGED <<flow, walk, scan>>

\* Lines 185-186
TextScan ==
  /\ pc = "scan"
  /\ LET r == _parse_array_like_key_value_text(text)
     IN IF r.some
        THEN parsed' = r /\ stage' = "scan" /\ pc' = "normalize"
        ELSE parsed' = None /\ stage' = stage /\ pc' = "raise"
  /\ UNCHANGED <<src, raw, card_style, text, cards, snippet>>
  /\ UNCHANGED <<flow, walk, scan>>

\* Lines 183-187 under code style: no fallback stage applies.
SkipFallbacks ==
  /\ pc = "fallback"
  /\ card_style # CARD_STYLE_ELI5
  /\ pc' = "raise"
  /\ UNCHANGED <<src, raw, card_style, text, parsed, stage, cards, snippet>>
  /\ UNCHANGED <<flow, walk, scan>>

\* Lines 187-191: raise ValueError with the snippet
Raise ==
  /\ pc = "raise"
  /\ snippet' = Snippet(raw)
  /\ pc' = "error"
  /\ UNCHANGED <<src, raw, card_style, text, parsed, stage, cards>>
  /\ UNCHANGED <<flow, walk, scan>>

\* Lines 193-207
NormalizeStep ==
  /\ pc = "normalize"
  /\ cards' = Normalize(parsed.val)
  /\ pc' = "done"
  /\ UNCHANGED <<src, raw, card_style, text, parsed, stage, snippet>>
  /\ UNCHANGED <<flow, walk, scan>>

Next ==
  \/ FenceStep
  \/ StrictParse
  \/ BracketScan
  \/ BraceRepair
  \/ FlatMerge
  \/ TextScan
  \/ SkipFallbacks
  \/ Raise
  \/ NormalizeStep

Spec == Init /\ [][Next]_vars

(* ------------------------- the decoder as a function ------------------ *)
\* Lines 159-207 in one piece: error names the exception that leaves the
\* function, the ValueError of line 189 or the RecursionError of a json.loads.
_parse_cards_json(r, style) ==
  LET t == StripFence(r)
      strict == JsonLoads(t)
      span == BracketSpan(t)
      bracket == JsonLoads(span)
      repaired == _repair_array_of_objects(span)
      rejson == JsonLoads(repaired.val)
      tried == IF strict.ok THEN Some(strict.val)
               ELSE IF span = <<>> THEN None
               ELSE IF bracket.ok THEN Some(bracket.val)
               ELSE IF style = CARD_STYLE_ELI5 /\ repaired.some /\ rejson.ok
                 THEN Some(rejson.val)
               ELSE None
      flat == IF tried.some \/ style # CARD_STYLE_ELI5 THEN tried
              ELSE _parse_flat_key_value_array(t)
      scanned == IF flat.some \/ style # CARD_STYLE_ELI5 THEN flat
                 ELSE _parse_array_like_key_value_text(t)
      crash == \/ strict.deep
               \/ ~strict.ok /\ span # <<>> /\ bracket.deep
               \/ /\ ~strict.ok /\ span # <<>> /\ ~bracket.ok
                  /\ style = CARD_STYLE_ELI5 /\ repaired.some /\ rejson.deep
  IN IF crash THEN [ok |-> FALSE, cards |-> <<>>, error |-> "RecursionError"]
     ELSE IF scanned.some
     THEN [ok |-> TRUE, cards |-> Normalize(scanned.val), error |-> ""]
     ELSE [ok |-> FALSE, cards |-> <<>>, error |-> "ValueError"]

Finished == pc \in {"done", "error", "crash"}

\* What the call in progress ended with.
Outcome ==
  [ok |-> pc = "done", cards |-> cards,
   error |-> CASE pc = "error" -> "ValueError"
               [] pc = "crash" -> "RecursionError"
               [] OTHER -> ""]

(* ------------------- generate, preview, build notes ------------------- *)
\* Characters html.escape rewrites, and what it writes for them.
LT == "<"
GT == ">"
AMP == "&"

\* html.escape(s), quote=True
EscapeAtom(a) ==
  CASE a = AMP -> "&amp;"
    [] a = LT -> "&lt;"
    [] a = GT -> "&gt;"
    [] a = QUOTE -> "&quot;"
    [] a = APOS -> "&#x27;"
    [] OTHER -> a

HtmlEscape(v) == [k \in 1..Len(v) |-> EscapeAtom(v[k])]

\* The literal pieces of the note fields.
PRE_OPEN == "<br><br><pre>"
PRE_CLOSE == "</pre>"
ELI5_LABEL == "ELI5: "
\* The two dashes stand for the two em dashes of the source.
TECHNICAL_LABEL == "<br><br>--<br><br>Technical: "

DECK_NAME == "LLM Flashcards"
NOTE_TYPE == "Basic"

\* str.split(): the maximal runs of non-whitespace atoms of v.
RECURSIVE SplitWords(_)
SplitWords(v) ==
  LET from == SkipSpace(v, 1)
      stops == {k \in from..Len(v) : IsSpace(v[k])}
      to == IF stops = {} THEN Len(v) + 1 ELSE Least(stops)
  IN IF from > Len(v) THEN <<>>
     ELSE <<SubSeq(v, from, to - 1)>> \o SplitWords(Slice(v, to, Len(v)))

\* A normalization that keeps the letter case.
NormalizeKeepsCase(q) == Strip(Join(SplitWords(q), <<SP>>))

\* " ".join(s.lower().split()).strip()
_normalize_question(q) == Strip(Join(SplitWords(Lower(q)), <<SP>>))

\* get_existing_questions on the Front values of the deck's notes: an empty
\* Front is passed over, every other one is normalized.
get_existing_questions(fronts) ==
  {_normalize_question(f) : f \in {g \in fronts : g # <<>>}}

\* {**c, "is_duplicate": norm in existing}
MarkCard(c, seen) ==
  [k \in DOMAIN c \cup {"is_duplicate"} |->
     IF k = "is_duplicate" THEN _normalize_question(c.question) \in seen ELSE c[k]]

preview_cards(cs, seen) == [k \in 1..Len(cs) |-> MarkCard(cs[k], seen)]

\* bool(c.get("code") and c.get("answer"))
_is_code_style_card(c) == c.code # <<>> /\ c.answer # <<>>

\* Lines 67-77 of main.py: the note of one card.
NoteOf(c) ==
  [deckName |-> DECK_NAME,
   modelName |-> NOTE_TYPE,
   fields |->
     IF _is_code_style_card(c)
     THEN [Front |-> c.question \o <<PRE_OPEN>> \o HtmlEscape(c.code) \o <<PRE_CLOSE>>,
           Back |-> c.answer]
     ELSE [Front |-> c.question,
           Back |-> <<ELI5_LABEL>> \o c.eli5 \o <<TECHNICAL_LABEL>> \o c.technical]]

RECURSIVE build_anki_notes(_, _)
build_anki_notes(marked, new_only) ==
  IF marked = <<>> THEN <<>>
  ELSE (IF new_only /\ Head(marked).is_duplicate THEN <<>> ELSE <<NoteOf(Head(marked))>>)
       \o build_anki_notes(Tail(marked), new_only)

\* Values of the responses of the flow: a question in mixed case with a run
\* of spaces, a code with markup.
VShout == Val(<<"Question", SP, SP, "x">>, <<"Question", SP, SP, "x">>)
VMarkup == Val(<<LT, "x", GT, AMP, BS, QUOTE>>, <<LT, "x", GT, AMP, QUOTE>>)

FlowCards ==
  { [q |-> VPlain, a |-> VMarkup, b |-> VOther],
    [q |-> VShout, a |-> VPlain, b |-> VEmpty],
    [q |-> VPadded, a |-> VEmpty, b |-> VPlain] }

\* The content of the model's reply: arrays of cards of either shape,
\* braceless lists and flat arrays, and replies that are blank, no JSON, or
\* too deep.
Responses ==
  {[body |-> b, wrap |-> "none"] :
     b \in [kind : {"array"}, shape : Styles, fmt : {"compact"},
            cards : SeqsUpTo(FlowCards, MaxCards), junk : {<<>>}]
           \cup [kind : {"bare", "flat"}, shape : {CARD_STYLE_ELI5}, fmt : {"compact"},
                 cards : SeqsUpTo(FlowCards, MaxCards), junk : {<<>>}]
           \cup [kind : {"junk"}, shape : {CARD_STYLE_ELI5}, fmt : {"compact"},
                 cards : {<<>>}, junk : {<<>>, <<SP, NL>>, <<LC>>, <<DEEP>>}]}

\* Front values of the notes already in the deck.
FrontTexts ==
  { <<>>, <<"x">>, <<SP, "QUESTION", NL, TAB, "x", SP>>, <<"x", SP, "Y">> }

FlowInit ==
  /\ src \in Responses
  /\ raw = Render(src.body, src.wrap)
  /\ card_style \in Styles
  /\ existing \in {get_existing_questions(F) : F \in SUBSET FrontTexts}
  /\ only_new \in BOOLEAN
  /\ pc = "response"
  /\ text = <<>> /\ parsed = None /\ stage = "none"
  /\ cards = <<>> /\ snippet = NoSnippet
  /\ cards_with_dup = <<>> /\ notes = <<>>
  /\ WalkIdle /\ ScanIdle

\* ollama_client.py lines 93-97 (and 145-149): a blank content
EmptyResponse ==
  /\ pc = "response"
  /\ Strip(raw) = <<>>
  /\ pc' = "gen_error"
  /\ UNCHANGED <<src, raw, card_style, text, parsed, stage, cards, snippet>>
  /\ UNCHANGED <<flow, walk, scan>>

\* Line 98 (and 150): cards = _parse_cards_json(content, card_style).  The
\* decoder's steps follow; its exception, if any, leaves generate_cards.
CallDecoder ==
  /\ pc = "response"
  /\ Strip(raw) # <<>>
  /\ pc' = "start"
  /\ UNCHANGED <<src, raw, card_style, text, parsed, stage, cards, snippet>>
  /\ UNCHANGED <<flow, walk, scan>>

\* Lines 99-103 (and 151-155): if not cards: raise ValueError
NoCards ==
  /\ pc = "done"
  /\ cards = <<>>
  /\ snippet' = Snippet(raw)
  /\ pc' = "gen_error"
  /\ UNCHANGED <<src, raw, card_style, text, parsed, stage, cards>>
  /\ UNCHANGED <<flow, walk, scan>>

\* Line 104 (and 156): return cards
ReturnCards ==
  /\ pc = "done"
  /\ cards # <<>>
  /\ pc' = "returned"
  /\ UNCHANGED <<src, raw, card_style, text, parsed, stage, cards, snippet>>
  /\ UNCHANGED <<flow, walk, scan>>

\* main.py line 120: cards_with_dup = preview_cards(cards, existing)
Preview ==
  /\ pc = "returned"
  /\ cards_with_dup' = preview_cards(cards, existing)
  /\ pc' = "previewed"
  /\ UNCHANGED <<src, raw, card_style, text, parsed, stage, cards, snippet>>
  /\ UNCHANGED <<existing, only_new, notes, walk, scan>>

\* main.py line 125: build_anki_notes(cards_with_dup, topic, only_new)
BuildNotes ==
  /\ pc = "previewed"
  /\ notes' = build_anki_notes(cards_with_dup, only_new)
  /\ pc' = "built"
  /\ UNCHANGED <<src, raw, card_style, text, parsed, stage, cards, snippet>>
  /\ UNCHANGED <<existing, only_new, cards_with_dup, walk, scan>>

FlowNext ==
  \/ EmptyResponse
  \/ CallDecoder
  \/ Next
  \/ NoCards
  \/ ReturnCards
  \/ Preview
  \/ BuildNotes

FlowSpec == FlowInit /\ [][FlowNext]_vars

(* --------------------- the flat walk, step by step -------------------- *)
MaxTokens == 4

Num(v) == [t |-> "num", v |-> v]

\* Items of a flat list: key names in several spellings, values, the empty
\* string, and an item that is no string.
WalkTokens ==
  { StrVal(<<"question">>), StrVal(<<"QUESTION">>), StrVal(<<"elI5">>),
    StrVal(<<"Technical">>), StrVal(<<"x">>), StrVal(<<>>), Num(<<DIGIT>>) }

WalkInit ==
  /\ walk_flat \in SeqsUpTo(WalkTokens, MaxTokens)
  /\ walk_i = 1
  /\ current = NoCard
  /\ cards = <<>>
  /\ pc = "walk"
  /\ src = <<>> /\ raw = <<>> /\ card_style = CARD_STYLE_ELI5
  /\ text = <<>> /\ parsed = None /\ stage = "none" /\ snippet = NoSnippet
  /\ FlowIdle /\ ScanIdle

\* Lines 297-302: flat[i] is a string that lowercases to a recognized key.
KeyAt(k) ==
  /\ k <= Len(walk_flat)
  /\ walk_flat[k].t = "str"
  /\ Lower(walk_flat[k].v) \in FlatKeys

\* Lines 296-304: an item in key position that is no recognized key
WalkSkip ==
  /\ pc = "walk"
  /\ walk_i <= Len(walk_flat)
  /\ ~KeyAt(walk_i)
  /\ walk_i' = walk_i + 1
  /\ UNCHANGED <<src, raw, card_style, pc, text, parsed, stage, cards, snippet>>
  /\ UNCHANGED <<walk_flat, current, flow, scan>>

\* A walk in which a question key writes into the record in progress
\* instead of closing it.
WalkPairKeepsRecord ==
  /\ pc = "walk"
  /\ KeyAt(walk_i)
  /\ walk_i + 1 <= Len(walk_flat)
  /\ LET key == Lower(walk_flat[walk_i].v)
         cur1 == IF ~current.set THEN NewCard ELSE current
     IN /\ cards' = cards
        /\ current' = IF walk_flat[walk_i + 1].t = "str"
                      THEN SetField(cur1, key, walk_flat[walk_i + 1].v) ELSE cur1
  /\ walk_i' = walk_i + 2
  /\ UNCHANGED <<src, raw, card_style, pc, text, parsed, stage, snippet>>
  /\ UNCHANGED <<walk_flat, flow, scan>>

\* Lines 305-317: a recognized key and the item after it
WalkPair ==
  /\ pc = "walk"
  /\ KeyAt(walk_i)
  /\ walk_i + 1 <= Len(walk_flat)
  /\ LET key == Lower(walk_flat[walk_i].v)
         cur1 == IF key = <<"question">> \/ ~current.set THEN NewCard ELSE current
     IN /\ cards' = IF key = <<"question">> /\ HasContent(current)
                    THEN Append(cards, current) ELSE cards
        /\ current' = IF walk_flat[walk_i + 1].t = "str"
                      THEN SetField(cur1, key, walk_flat[walk_i + 1].v) ELSE cur1
  /\ walk_i' = walk_i + 2
  /\ UNCHANGED <<src, raw, card_style, pc, text, parsed, stage, snippet>>
  /\ UNCHANGED <<walk_flat, flow, scan>>

\* Lines 296 and 306-308: the list is used up, or a key is its last item
WalkExit ==
  /\ pc = "walk"
  /\ walk_i > Len(walk_flat) \/ (KeyAt(walk_i) /\ walk_i + 1 > Len(walk_flat))
  /\ walk_i' = IF walk_i > Len(walk_flat) THEN walk_i ELSE walk_i + 1
  /\ pc' = "walk_end"
  /\ UNCHANGED <<src, raw, card_style, text, parsed, stage, cards, snippet>>
  /\ UNCHANGED <<walk_flat, current, flow, scan>>

\* Lines 318-319: the record in progress, if it has content
WalkFinish ==
  /\ pc = "walk_end"
  /\ cards' = IF HasContent(current) THEN Append(cards, current) ELSE cards
  /\ pc' = "walk_done"
  /\ UNCHANGED <<src, raw, card_style, text, parsed, stage, snippet>>
  /\ UNCHANGED <<walk, flow, scan>>

WalkNext ==
  \/ WalkSkip
  \/ WalkPair
  \/ WalkExit
  \/ WalkFinish

WalkSpec == WalkInit /\ [][WalkNext]_vars

(* --------------------- the text scan, step by step -------------------- *)
MaxPairs == 3

\* "key": "value" as the model writes it, with the spacing around the colon
KeyValue(key, before, after, value) ==
  <<QUOTE, key, QUOTE>> \o before \o <<COLON>> \o after \o <<QUOTE>> \o value

\* Pieces of a reply: pairs under the three keys in several spellings, with
\* a plain, an empty, an escaped and an unterminated value, and a pair under
\* an unknown key.
ScanPieces ==
  { KeyValue("question", <<>>, <<SP>>, <<"x", QUOTE>>),
    KeyValue("Question", <<>>, <<>>, <<QUOTE>>),
    KeyValue("QUESTION", <<SP>>, <<>>, <<"x">>),
    KeyValue("elI5", <<>>, <<SP>>, <<"y", QUOTE>>),
    KeyValue("ELI5", <<>>, <<>>, <<"x", QUOTE>>),
    KeyValue("Technical", <<>>, <<>>, <<BS, QUOTE, "x", BS, BS, QUOTE>>),
    KeyValue("x", <<>>, <<>>, <<"y", QUOTE>>) }

\* The text handed to the scan: the pieces in brackets; a short reply also
\* after a sentence, and with the closing bracket missing.
ScanTexts ==
  { <<LB>> \o Join(ps, <<COMMA, SP>>) \o <<RB>> : ps \in SeqsUpTo(ScanPieces, MaxPairs) }
  \cup UNION { { <<"Sure", SP, LB>> \o Join(ps, <<COMMA, SP>>) \o <<RB, NL>>,
                 <<LB>> \o Join(ps, <<COMMA, SP>>) } : ps \in SeqsUpTo(ScanPieces, 1) }

ScanInit ==
  /\ text \in ScanTexts
  /\ pc = "scan_start"
  /\ cards = <<>>
  /\ parsed = None
  /\ src = <<>> /\ raw = <<>> /\ card_style = CARD_STYLE_ELI5
  /\ stage = "none" /\ snippet = NoSnippet
  /\ FlowIdle /\ WalkIdle /\ ScanIdle

\* Lines 248-256: s is the text from the first [ to the last ]
ScanStart ==
  /\ pc = "scan_start"
  /\ LET start == Find(text, LB)
         end == RFind(text, RB)
     IN IF start = 0 \/ end <= start
        THEN /\ pc' = "scan_returned"
             /\ UNCHANGED scan
        ELSE /\ pc' = "scan"
             /\ scan_s' = SubSeq(text, start, end)
             /\ pos' = 1
  /\ UNCHANGED <<src, raw, card_style, text, parsed, stage, cards, snippet>>
  /\ UNCHANGED <<flow, walk>>

\* Lines 257-260: the text is used up or holds no further key
ScanNoMatch ==
  /\ pc = "scan"
  /\ pos > Len(scan_s) \/ KeySearch(scan_s, pos) = 0
  /\ pc' = "scan_done"
  /\ UNCHANGED <<src, raw, card_style, text, parsed, stage, cards, snippet>>
  /\ UNCHANGED <<flow, walk, scan>>

\* Lines 261-267: a key whose quoted value never closes
ScanUnterminated ==
  /\ pc = "scan"
  /\ pos <= Len(scan_s)
  /\ KeySearch(scan_s, pos) # 0
  /\ \E m \in {KeySearch(scan_s, pos)} :
       \E open \in {KeyPatternEnd(scan_s, m)} :
         /\ ~_extract_quoted_value(scan_s, open).some
         /\ pos' = open + 1
  /\ UNCHANGED <<src, raw, card_style, pc, text, parsed, stage, cards, snippet>>
  /\ UNCHANGED <<flow, walk, scan_s>>

\* Lines 261-275: a key and its value
ScanValue ==
  /\ pc = "scan"
  /\ pos <= Len(scan_s)
  /\ KeySearch(scan_s, pos) # 0
  /\ \E m \in {KeySearch(scan_s, pos)} :
       \E key \in {<<LowerAtom(scan_s[m + 1])>>}, open \in {KeyPatternEnd(scan_s, m)} :
         \E x \in {_extract_quoted_value(scan_s, open)} :
           /\ x.some
           /\ pos' = x.after
           /\ cards' = IF key = <<"question">>
                       THEN Append(cards, SetField(NewCard, key, x.val))
                       ELSE IF cards # <<>> THEN SetLast(cards, key, x.val)
                       ELSE cards
  /\ UNCHANGED <<src, raw, card_style, pc, text, parsed, stage, snippet>>
  /\ UNCHANGED <<flow, walk, scan_s>>

\* Line 276: the records, if any of them has a question or a technical
ScanReturn ==
  /\ pc = "scan_done"
  /\ parsed' = IF cards # <<>> /\ \E k \in 1..Len(cards) : HasContent(cards[k])
               THEN Some([t |-> "list", v |-> [k \in 1..Len(cards) |-> CardDict(cards[k])]])
               ELSE None
  /\ pc' = "scan_returned"
  /\ UNCHANGED <<src, raw, card_style, text, stage, cards, snippet>>
  /\ UNCHANGED <<flow, walk, scan>>

ScanNext ==
  \/ ScanStart
  \/ ScanNoMatch
  \/ ScanUnterminated
  \/ ScanValue
  \/ ScanReturn

ScanSpec == ScanInit /\ [][ScanNext]_vars

\* The loop runs to its end: nothing but the loop's own steps is pending.
ScanFairSpec == ScanSpec /\ WF_vars(ScanNext)

(* ------------------------------- claims ------------------------------- *)
LowerFormats == {"compact", "spaced", "lines"}

\* The card a well-formed input record stands for under its shape: the trimmed
\* values of its own fields, the empty string elsewhere.
ExpectedCard(c, shape) ==
  [question |-> Strip(c.q.val),
   code |-> IF shape = CARD_STYLE_CODE THEN Strip(c.a.val) ELSE <<>>,
   eli5 |-> IF shape = CARD_STYLE_ELI5 THEN Strip(c.a.val) ELSE <<>>,
   technical |-> IF shape = CARD_STYLE_ELI5 THEN Strip(c.b.val) ELSE <<>>,
   answer |-> IF shape = CARD_STYLE_CODE THEN Strip(c.b.val) ELSE <<>>]

ExpectedCards(b) == [i \in 1..Len(b.cards) |-> ExpectedCard(b.cards[i], b.shape)]

HasAtom(s, a) == \E i \in 1..Len(s) : s[i] = a

\* A text: a sequence of atoms, whatever they are.
IsText(v) == DOMAIN v = 1..Len(v) /\ \A i \in 1..Len(v) : v[i] \in STRING

\* C1: every record decode returns has exactly the five keys question, code,
\* eli5, technical, answer, each bound to a string with no leading or trailing
\* whitespace, whatever the input, the style and the stage that parsed it.
C1_FiveTrimmedStrings ==
  pc = "done" =>
    \A i \in 1..Len(cards) :
      /\ DOMAIN cards[i] = CardKeys
      /\ \A k \in CardKeys : IsText(cards[i][k]) /\ Strip(cards[i][k]) = cards[i][k]

\* C1 witness: a returned record whose padded question was trimmed and whose
\* code and answer, absent from the input, are empty strings.
C1_Witness ==
  /\ pc = "done"
  /\ src.body.kind = "array" /\ src.body.shape = CARD_STYLE_ELI5 /\ src.wrap = "none"
  /\ Len(cards) = 2
  /\ src.body.cards[2].q = VPadded
  /\ cards[2].question = <<"x", SP, "y">>
  /\ cards[2].code = <<>> /\ cards[2].answer = <<>>

\* C2 (as claimed): a well-formed array of records with the requested style's
\* fields and string values decodes to one record per input record, in order,
\* each value the trimmed original, whatever the whitespace between tokens.
C2_WellFormedArrayDecodes ==
  (/\ Finished
   /\ src.wrap = "none" /\ src.body.kind = "array"
   /\ src.body.shape = card_style /\ src.body.fmt \in LowerFormats
   /\ \A i \in 1..Len(src.body.cards) : src.body.cards[i] \in FullCards)
  => pc = "done" /\ cards = ExpectedCards(src.body)

\* Whether a fence wrap hands the decoder the inner content as it is: the
\* inner content holds no backtick, and does not begin with the word json
\* right after an untagged opening fence.
FenceKeepsInner(inner, wrap) ==
  /\ ~HasAtom(inner, FENCE)
  /\ ~(wrap = "fencetight" /\ inner # <<>> /\ inner[1] = JSONTAG)

\* C3 (as claimed): content wrapped in a fence decodes as the content alone,
\* for any inner content.
C3_FenceWrapSameAsInner ==
  (Finished /\ IsFenceWrap(src.wrap))
  => Outcome = _parse_cards_json(RenderBody(src.body), card_style)

\* C3 (amended): content that holds no backtick and does not begin with the
\* word json right after an untagged fence decodes, fence-wrapped, to the same
\* records as alone, or fails in both cases.
C3_FenceWrapSameAsPlainInner ==
  (Finished /\ IsFenceWrap(src.wrap) /\ FenceKeepsInner(RenderBody(src.body), src.wrap))
  => Outcome = _parse_cards_json(RenderBody(src.body), card_style)

\* C3 witness: a single record in a tagged fence, decoded under code style.
C3_Witness ==
  /\ pc = "done" /\ card_style = CARD_STYLE_CODE
  /\ src.wrap = "fencejson" /\ src.body.kind = "object"
  /\ FenceKeepsInner(RenderBody(src.body), src.wrap)
  /\ Len(cards) = 1 /\ cards[1].question = <<"x">>

\* Whether prose leaves the array findable: no square bracket, no double
\* quote and no backtick in it.
PlainProse(wrap) ==
  \A a \in {LB, RB, QUOTE, FENCE} : ~HasAtom(Lead(wrap) \o Trail(wrap), a)

\* C4 (as claimed): prose, a valid array, prose decodes as the array alone.
C4_ProseAroundArraySame ==
  (Finished /\ IsProseWrap(src.wrap) /\ src.body.kind = "array")
  => Outcome = _parse_cards_json(RenderBody(src.body), card_style)

\* C4 (amended): prose without square bracket, double quote or backtick around
\* a valid array decodes as the array alone.
C4_PlainProseAroundArraySame ==
  (Finished /\ IsProseWrap(src.wrap) /\ PlainProse(src.wrap) /\ src.body.kind = "array")
  => Outcome = _parse_cards_json(RenderBody(src.body), card_style)

\* C4 witness: an array of two records between prose, found by the bracket scan.
C4_Witness ==
  /\ pc = "done" /\ stage = "bracket"
  /\ src.wrap = "prose" /\ src.body.kind = "array"
  /\ Len(cards) = 2 /\ cards[1].question = <<"y">>

\* C5 (as claimed): under eli5_technical a bracketed list of "key": "value"
\* pairs without object braces, each card starting with "question":, decodes
\* to one record per question key with that card's values.
C5_BracelessListDecodes ==
  (/\ Finished /\ card_style = CARD_STYLE_ELI5
   /\ src.wrap = "none" /\ src.body.kind = "bare"
   /\ src.body.shape = CARD_STYLE_ELI5 /\ src.body.fmt \in LowerFormats
   /\ Len(src.body.cards) >= 1)
  => pc = "done" /\ cards = ExpectedCards(src.body)

\* C6 (as claimed): under eli5_technical two or more adjacent flat arrays
\* ["question", Q, "eli5", E, "technical", T] decode to one record per array.
C6_FlatArraysDecode ==
  (/\ Finished /\ card_style = CARD_STYLE_ELI5
   /\ src.wrap = "none" /\ src.body.kind = "flat"
   /\ src.body.shape = CARD_STYLE_ELI5 /\ src.body.fmt \in LowerFormats
   /\ Len(src.body.cards) >= 2)
  => pc = "done" /\ cards = ExpectedCards(src.body)

HasUsableField(c) == c.question # <<>> \/ c.technical # <<>> \/ c.answer # <<>>

RawContent(d) ==
  Get(d.v, <<"question">>, StrVal(<<>>)).v # <<>>
  \/ Get(d.v, <<"technical">>, StrVal(<<>>)).v # <<>>

AllSpace(s) == \A i \in 1..Len(s) : IsSpace(s[i])

\* C8: an input that is empty or whitespace, or is so once its fence is
\* stripped, raises and returns no record.
C8_BlankInputRaises ==
  (Finished /\ (AllSpace(raw) \/ text = <<>>)) => pc = "error" /\ cards = <<>>

\* C8 witness: a fence around whitespace only, refused.
C8_Witness ==
  /\ pc = "error" /\ IsFenceWrap(src.wrap)
  /\ RenderBody(src.body) = <<SP, NL>> /\ text = <<>>

\* The first n atoms of the input, newlines as spaces.
InputPrefix(n) == ReplaceNewlines(Slice(raw, 1, n))

SnippetFromStart ==
  /\ snippet.body = InputPrefix(Len(snippet.body))
  /\ snippet.part # <<>> => snippet.part[1] = raw[Len(snippet.body) + 1]
  /\ ~HasAtom(snippet.body, NL)

\* C9 (as claimed): the snippet of a failure starts the input, has no newline
\* and is at most 500 characters long.
C9_SnippetAtMost500 ==
  pc = "error" => SnippetFromStart /\ SnippetLen(snippet) <= SNIPPET_CHARS

\* C9 (amended): the snippet is the first 500 characters of the input, or all
\* of a shorter input, newlines as spaces, followed by "..." when the input is
\* longer than 500 characters: at most 503 characters.
C9_SnippetAtMost503 ==
  pc = "error" =>
    /\ SnippetFromStart
    /\ snippet.ellipsis = (TextLen(raw) > SNIPPET_CHARS)
    /\ SnippetLen(snippet) =
         IF TextLen(raw) > SNIPPET_CHARS THEN SNIPPET_CHARS + 3 ELSE TextLen(raw)

\* C9 witness: the failure of an input of more than 500 characters with
\* newlines, cut inside a word.
C9_Witness ==
  /\ pc = "error" /\ TextLen(raw) > SNIPPET_CHARS
  /\ HasAtom(raw, NL) /\ snippet.partChars > 0

\* C10 (as claimed): a record whose keys differ from the lowercase names only
\* in letter case decodes as the record with lowercase keys.
C10_KeyCaseIgnored ==
  (/\ Finished /\ src.wrap = "none"
   /\ src.body.kind \in {"array", "object"} /\ src.body.fmt \in {"cap", "upper"})
  => Outcome = _parse_cards_json(RenderBody([src.body EXCEPT !.fmt = "compact"]),
                                 card_style)

\* json.loads raised the JSONDecodeError the decoder catches.
ParseFails(t) == ~JsonLoads(t).ok /\ ~JsonLoads(t).deep

\* Every stage that applies to the call in progress has failed.
Exhausted ==
  LET span == BracketSpan(text)
      repaired == _repair_array_of_objects(span)
  IN /\ ParseFails(text)
     /\ span # <<>> => ParseFails(span)
     /\ card_style = CARD_STYLE_ELI5 =>
          /\ span # <<>> /\ repaired.some => ParseFails(repaired.val)
          /\ ~_parse_flat_key_value_array(text).some
          /\ ~_parse_array_like_key_value_text(text).some

\* C11 (as claimed): a call ends with a returned sequence or with the one
\* DecodeError; a failure inside a stage never leaves the decoder, and the
\* DecodeError comes only once every applicable stage has failed.
C11_OnlyReturnOrDecodeError ==
  /\ pc # "crash"
  /\ pc = "error" => Exhausted

\* Both the strict parse and the bracket scan ran and failed.
BothParsesFail ==
  /\ ParseFails(text)
  /\ BracketSpan(text) # <<>> => ParseFails(BracketSpan(text))

\* C14: under code style the repair, the flat-array merge and the text scan
\* never run: an input on which the strict parse and the bracket scan fail
\* raises DecodeError, whatever it decodes to under eli5_technical.
C14_FallbacksForEli5Only ==
  card_style = CARD_STYLE_CODE =>
    /\ pc \notin {"repair", "scan"}
    /\ stage \notin {"repair", "flat", "scan"}
    /\ (Finished /\ BothParsesFail) => pc = "error" /\ cards = <<>>

\* C14 witness: a braceless list refused under code style that decodes to two
\* records under eli5_technical.
C14_Witness ==
  /\ pc = "error" /\ card_style = CARD_STYLE_CODE
  /\ src.body.kind = "bare" /\ src.wrap = "none"
  /\ _parse_cards_json(raw, CARD_STYLE_ELI5).ok
  /\ Len(_parse_cards_json(raw, CARD_STYLE_ELI5).cards) = 2

\* C15 (as claimed): under eli5_technical a single bracketed array of
\* alternating key and value strings decodes, through the flat key-value
\* walk, to the record it spells.
C15_SingleFlatArrayDecodes ==
  (/\ Finished /\ card_style = CARD_STYLE_ELI5
   /\ src.wrap = "none" /\ src.body.kind = "flat"
   /\ src.body.shape = CARD_STYLE_ELI5 /\ src.body.fmt \in LowerFormats
   /\ Len(src.body.cards) = 1)
  => pc = "done" /\ stage = "flat" /\ cards = ExpectedCards(src.body)

\* The call of generate_cards has ended with cards in the caller's hands.
Generated == pc \in {"returned", "previewed", "built"}

\* The cards build_anki_notes makes notes of.
Kept == SelectSeq(cards_with_dup, LAMBDA c : ~(only_new /\ c.is_duplicate))

CodeFields(c) ==
  [Front |-> c.question \o <<PRE_OPEN>> \o HtmlEscape(c.code) \o <<PRE_CLOSE>>,
   Back |-> c.answer]

Eli5Fields(c) ==
  [Front |-> c.question,
   Back |-> <<ELI5_LABEL>> \o c.eli5 \o <<TECHNICAL_LABEL>> \o c.technical]

\* C12 (as claimed): a record decoded under code style gives Front = question
\* and the escaped code in a preformatted block, Back = answer; a record
\* decoded under eli5_technical gives Front = question, Back = the labeled
\* eli5 and technical.
C12_FieldsFollowStyle ==
  pc = "built" =>
    /\ Len(notes) = Len(Kept)
    /\ \A k \in 1..Len(Kept) :
         notes[k].fields = IF card_style = CARD_STYLE_CODE
                           THEN CodeFields(Kept[k]) ELSE Eli5Fields(Kept[k])

\* Each whitespace run of v as one space.
Collapse(v) ==
  LET firsts == SelectSeq([k \in 1..Len(v) |-> k],
                          LAMBDA k : ~(IsSpace(v[k]) /\ k > 1 /\ IsSpace(v[k - 1])))
  IN [k \in 1..Len(firsts) |-> IF IsSpace(v[firsts[k]]) THEN SP ELSE v[firsts[k]]]

\* The normalized form as the claim words it: lowercased, whitespace runs
\* collapsed to single spaces, trimmed.
NormalOf(q) == Strip(Collapse(Lower(q)))

\* C13: preview_cards keeps every card, in order, and flags it exactly when
\* the normalized form of its question is among the existing normalized
\* questions; normalizing twice is normalizing once; with only_new
\* build_anki_notes makes one note per unflagged card, in order, and none
\* for a flagged one.
C13_DuplicatesFlaggedAndSkipped ==
  /\ \A f \in FrontTexts :
       /\ _normalize_question(f) = NormalOf(f)
       /\ _normalize_question(_normalize_question(f)) = _normalize_question(f)
  /\ pc \in {"previewed", "built"} =>
       /\ Len(cards_with_dup) = Len(cards)
       /\ \A k \in 1..Len(cards) :
            /\ [f \in CardKeys |-> cards_with_dup[k][f]] = cards[k]
            /\ cards_with_dup[k].is_duplicate = (NormalOf(cards[k].question) \in existing)
            /\ _normalize_question(_normalize_question(cards[k].question))
                 = _normalize_question(cards[k].question)
  /\ (pc = "built" /\ only_new) =>
       LET unflagged == SelectSeq(cards_with_dup, LAMBDA c : ~c.is_duplicate)
       IN notes = [k \in 1..Len(unflagged) |-> NoteOf(unflagged[k])]

\* C13 witness: of two cards the first, whose question differs from an
\* existing one in case and spacing only, is flagged and left out of the notes.
C13_Witness ==
  /\ pc = "built" /\ only_new
  /\ Len(cards_with_dup) = 2
  /\ cards[1].question = <<"Question", SP, SP, "x">>
  /\ cards_with_dup[1].is_duplicate /\ ~cards_with_dup[2].is_duplicate
  /\ Len(notes) = 1 /\ notes[1] = NoteOf(cards_with_dup[2])

\* C19 (as claimed): generate_cards hands its caller at least one card, or
\* raises ValueError: on a blank reply, on a failure of the decoder, or on a
\* decoding that yields no record.
C19_CardsOrValueError ==
  /\ Generated => cards # <<>>
  /\ pc # "crash"

\* The field of a card record a key names.
FieldOf(card, key) ==
  CASE key = <<"question">> -> card.question
    [] key = <<"eli5">> -> card.eli5
    [] key = <<"technical">> -> card.technical

\* The record a key opens a write into: the one in progress, or a fresh one
\* when there is none.
Opened(card) == IF card.set THEN card ELSE NewCard

\* C16: in the flat walk, a recognized key (any letter case) followed by a
\* string assigns the string to that field of the record in progress; a
\* question key closes the record in progress, emitting it only if its
\* question or technical is non-empty, and starts a new record; an eli5 or
\* technical key leaves the emitted records and the other fields alone; an item
\* in key position that is no recognized key is skipped and changes neither
\* the record in progress nor the number of emitted records.
C16_WalkStepSemantics ==
  [][(pc = "walk" /\ walk_i <= Len(walk_flat)) =>
       IF KeyAt(walk_i) /\ walk_i < Len(walk_flat)
       THEN LET key == Lower(walk_flat[walk_i].v)
                val == walk_flat[walk_i + 1]
            IN /\ walk_i' = walk_i + 2
               /\ current'.set
               /\ val.t = "str" => FieldOf(current', key) = val.v
               /\ key = <<"question">> =>
                    /\ cards' = IF current.set /\ (current.question # <<>>
                                                   \/ current.technical # <<>>)
                                THEN Append(cards, current) ELSE cards
                    /\ current'.eli5 = <<>> /\ current'.technical = <<>>
                    /\ val.t # "str" => current'.question = <<>>
               /\ key # <<"question">> =>
                    /\ cards' = cards
                    /\ \A k \in FlatKeys \ {key} :
                         FieldOf(current', k) = FieldOf(Opened(current), k)
                    /\ val.t # "str" => current' = Opened(current)
       ELSE IF ~KeyAt(walk_i)
       THEN walk_i' = walk_i + 1 /\ current' = current /\ Len(cards') = Len(cards)
       ELSE cards' = cards /\ current' = current]_vars

\* A finished walk that skipped an unrecognized first item, dropped an empty
\* record at the second question key and emitted the record that followed.
C16_Witness ==
  /\ pc = "walk_done"
  /\ Len(walk_flat) = 4
  /\ ~KeyAt(1) /\ KeyAt(2)
  /\ walk_flat[2].v = <<"QUESTION">>
  /\ walk_flat[3] = StrVal(<<"Technical">>)
  /\ walk_flat[4] = StrVal(<<"x">>)
  /\ cards = <<[set |-> TRUE, question |-> <<"Technical">>, eli5 |-> <<>>,
                technical |-> <<>>]>>

\* C17: in the text scan every loop iteration moves the position strictly
\* forward, after an extracted value to just past its closing quote and
\* after an unterminated one to just past the opening quote; the match of an
\* iteration lies between the old and the new position, so no two matches
\* overlap; and the scan comes to its end on every input.
C17_ScanAdvances ==
  /\ [][(pc = "scan" /\ pc' = "scan") =>
          LET m == KeySearch(scan_s, pos)
              open == KeyPatternEnd(scan_s, m)
              close == ClosingQuote(scan_s, open + 1)
          IN /\ pos' > pos
             /\ pos' <= Len(scan_s) + 1
             /\ m >= pos /\ open > m /\ pos' > open
             /\ close # 0 => pos' = close + 1
             /\ close = 0 => pos' = open + 1]_vars
  /\ <>(pc = "scan_returned")

\* A scan that has consumed a value and started a record, and now stands
\* before a key whose value never closes.
C17_Witness ==
  /\ pc = "scan"
  /\ pos > 1
  /\ cards # <<>>
  /\ KeySearch(scan_s, pos) # 0
  /\ ClosingQuote(scan_s, KeyPatternEnd(scan_s, KeySearch(scan_s, pos)) + 1) = 0

\* What one iteration of the scan does to the records: a question key with
\* an extractable value starts a record holding that question; an eli5 or
\* technical key (any spelling) with an extractable value sets that field of
\* the last record started and nothing else, so a later value replaces an
\* earlier one; before the first question it is assigned to no record; an
\* unterminated value changes nothing.
ScanStepSemantics ==
  (pc = "scan" /\ pc' = "scan") =>
    LET m == KeySearch(scan_s, pos)
        key == <<LowerAtom(scan_s[m + 1])>>
        x == _extract_quoted_value(scan_s, KeyPatternEnd(scan_s, m))
        n == Len(cards)
    IN IF ~x.some THEN cards' = cards
       ELSE IF key = <<"question">>
         THEN cards' = Append(cards, [set |-> TRUE, question |-> x.val,
                                      eli5 |-> <<>>, technical |-> <<>>])
       ELSE IF cards = <<>> THEN cards' = <<>>
       ELSE /\ Len(cards') = n
            /\ \A k \in 1..(n - 1) : cards'[k] = cards[k]
            /\ FieldOf(cards'[n], key) = x.val
            /\ \A f \in FlatKeys \ {key} : FieldOf(cards'[n], f) = FieldOf(cards[n], f)

\* The number of records the scan returns (none when it returns None).
Produced == IF parsed.some THEN Len(parsed.val.v) ELSE 0

\* Some record has a non-empty question or technical.
AnyUsable == \E k \in 1..Len(cards) : cards[k].question # <<>> \/ cards[k].technical # <<>>

\* C18 as stated: the records follow the keys as above, and the number of
\* records produced equals the number of question occurrences consumed.
C18_RecordsEqualQuestions ==
  /\ [][ScanStepSemantics]_vars
  /\ [](pc = "scan_returned" => Produced = Len(cards))

\* C18, amended: the records follow the keys as above; the scan returns one
\* record per question occurrence consumed when some record has a non-empty
\* question or technical, and returns nothing otherwise.
C18_ScanRecords ==
  /\ [][ScanStepSemantics]_vars
  /\ [](pc = "scan_returned" =>
          IF AnyUsable THEN Produced = Len(cards) ELSE parsed = None)

\* A finished scan of a question followed by an eli5 given twice, as elI5
\* and as ELI5: one record, holding the later eli5.
C18_Witness ==
  /\ pc = "scan_returned"
  /\ Produced = 1
  /\ cards[1].question = <<"x">>
  /\ cards[1].eli5 = <<"x">>
  /\ \E i, j \in 1..Len(scan_s) : i < j /\ scan_s[i] = "elI5" /\ scan_s[j] = "ELI5"

====
